---- MODULE Spec2Model ----
(***************************************************************************)
(* Model of the YouTube video summarizer: the chunker                      *)
(* (AsyncTranscriptSummarizer.split_in_chunks), the chunk-and-merge        *)
(* pipeline (AsyncTranscriptSummarizer.summarize) and the cached request   *)
(* handler (app.summarize) with its Redis cache.                           *)
(*                                                                         *)
(* Strings are sequences of one-character strings.  NL is "\n", SP is " ". *)
(***************************************************************************)
EXTENDS Integers, Sequences, FiniteSets, TLC

\* ------------------------------------------------------------------ bounds

\* longest transcript given to split_in_chunks in SpecSplit
MaxLen == 8
\* largest max_chunk_size the summarizer is constructed with in SpecSplit
MaxChunkSize == 6
\* max_chunk_size of the app's summarizer, scaled to the app's transcripts
AppChunkSize == 3
PoolWorkers == 2

\* ------------------------------------------------------------- characters

NL == "\n"
SP == " "
\* characters of the transcripts fed to the chunker
Alphabet == {"a", SP, NL}
\* str.strip() with no argument strips whitespace
Whitespace == {SP, NL}

\* all strings over S of length at most n
StringsUpTo(S, n) == UNION {[1..k -> S] : k \in 0..n}

\* ---------------------------------------------------------------- chunker

\* length of the run of newlines that starts at position i of t
RECURSIVE NewlineRun(_, _)
NewlineRun(t, i) ==
    IF i > Len(t) \/ t[i] # NL THEN 0 ELSE 1 + NewlineRun(t, i + 1)

\* re.split(r"\n{2,}", t), scanning from position i with the paragraph cur
\* open: a maximal run of two or more newlines closes the open paragraph, a
\* single newline belongs to the paragraph
RECURSIVE ReSplitFrom(_, _, _)
ReSplitFrom(t, i, cur) ==
    IF i > Len(t) THEN <<cur>>
    ELSE LET run == NewlineRun(t, i) IN
         IF run >= 2 THEN <<cur>> \o ReSplitFrom(t, i + run, <<>>)
         ELSE ReSplitFrom(t, i + 1, Append(cur, t[i]))

ReSplit(t) == ReSplitFrom(t, 1, <<>>)

RECURSIVE LStrip(_)
LStrip(s) ==
    IF s # <<>> /\ Head(s) \in Whitespace THEN LStrip(Tail(s)) ELSE s

RECURSIVE RStrip(_)
RStrip(s) ==
    IF s # <<>> /\ s[Len(s)] \in Whitespace
    THEN RStrip(SubSeq(s, 1, Len(s) - 1)) ELSE s

\* str.strip()
Strip(s) == RStrip(LStrip(s))

\* the paragraph separator appended after every paragraph
Sep == <<NL, NL>>

\* Fits with the comparison made strict
Fits_Strict(current_chunk, paragraph, size) ==
    Len(current_chunk) + Len(paragraph) + 1 < size

\* Fits with the length of the current chunk left out
Fits_IgnoresBuffer(current_chunk, paragraph, size) ==
    Len(paragraph) + 1 <= size

\* the condition under which a paragraph joins the current chunk
Fits(current_chunk, paragraph, size) ==
    Len(current_chunk) + Len(paragraph) + 1 <= size

\* ChunkLoop cutting a paragraph that does not fit down to size characters
RECURSIVE ChunkLoop_Truncating(_, _, _, _, _)
ChunkLoop_Truncating(paragraphs, i, chunks, current_chunk, size) ==
    IF i > Len(paragraphs) THEN <<chunks, current_chunk>>
    ELSE IF Fits(current_chunk, paragraphs[i], size)
         THEN ChunkLoop_Truncating(paragraphs, i + 1, chunks,
                        current_chunk \o paragraphs[i] \o Sep, size)
         ELSE ChunkLoop_Truncating(paragraphs, i + 1,
                        Append(chunks, Strip(current_chunk)),
                        SubSeq(paragraphs[i], 1, size) \o Sep, size)

\* the for loop of split_in_chunks over paragraphs[i..], with the chunks
\* appended so far and the current chunk; returns <<chunks, current_chunk>>
RECURSIVE ChunkLoop(_, _, _, _, _)
ChunkLoop(paragraphs, i, chunks, current_chunk, size) ==
    IF i > Len(paragraphs) THEN <<chunks, current_chunk>>
    ELSE IF Fits(current_chunk, paragraphs[i], size)
         THEN ChunkLoop(paragraphs, i + 1, chunks,
                        current_chunk \o paragraphs[i] \o Sep, size)
         ELSE ChunkLoop(paragraphs, i + 1,
                        Append(chunks, Strip(current_chunk)),
                        paragraphs[i] \o Sep, size)

\* DropEmpty keeping every chunk
DropEmpty_KeepsAll(chunks) == chunks

\* [chunk for chunk in chunks if chunk]
DropEmpty(chunks) == SelectSeq(chunks, LAMBDA c : c # <<>>)

\* RawChunks without the flush of the remainder after the loop
RawChunks_NoFinalFlush(t, size) ==
    ChunkLoop(ReSplit(t), 1, <<>>, <<>>, size)[1]

\* the chunks before the final filter: the loop, then the flush of a
\* non-empty remainder
RawChunks(t, size) ==
    LET end == ChunkLoop(ReSplit(t), 1, <<>>, <<>>, size) IN
    IF end[2] # <<>> THEN Append(end[1], Strip(end[2])) ELSE end[1]

split_in_chunks(t, size) == DropEmpty(RawChunks(t, size))

\* ------------------------------------------------------------------ state

VARIABLES
    max_chunk_size,  \* AsyncTranscriptSummarizer.max_chunk_size
    text,            \* the transcript passed to split_in_chunks
    result,          \* the list split_in_chunks returned
    split_pc,        \* "call" before split_in_chunks ran, "returned" after
    cache,           \* the Redis store: key -> entry
    req,             \* the app.summarize calls in progress, one per slot
    lastOk           \* history: the last app.summarize call that returned

vars == <<max_chunk_size, text, result, split_pc, cache, req, lastOk>>

splitVars == <<text, result, split_pc>>
appVars == <<cache, req, lastOk>>

\* ------------------------------------------- the chunker called on its own

\* an absent key: what redis get answers with None for
Absent == [present |-> FALSE, value |-> <<>>]

InitSplit ==
    /\ max_chunk_size \in 1..MaxChunkSize
    /\ text \in StringsUpTo(Alphabet, MaxLen)
    /\ result = <<>>
    /\ split_pc = "call"
    /\ cache = <<>>
    /\ req = <<>>
    /\ lastOk = [known |-> FALSE]

SplitCall ==
    /\ split_pc = "call"
    /\ result' = split_in_chunks(text, max_chunk_size)
    /\ split_pc' = "returned"
    /\ UNCHANGED <<max_chunk_size, text, appVars>>

NextSplit == SplitCall

SpecSplit == InitSplit /\ [][NextSplit]_vars

\* ------------------------------------------------------- the app's inputs

\* the prefix validate_request asks for
YouTubePrefix == "https://www.youtube.com/"

\* URLs as prefix and video id
Urls ==
    { [prefix |-> YouTubePrefix, id |-> "abc123"],
      [prefix |-> "https://youtu.be/", id |-> "abc123"] }

Videos == {u.id : u \in Urls}

\* the language argument as callers give it
LanguageInputs == {"English", "french", "German"}

\* str.lower() on the language inputs
Lower(l) ==
    CASE l = "English" -> "english"
      [] l = "french" -> "french"
      [] l = "German" -> "german"

\* language_codes = {"french": "fr", "english": "en"}
language_codes == [l \in {"french", "english"} |-> IF l = "french" THEN "fr" ELSE "en"]

\* the transcripts get_transcript may return: none, blank, one and two
\* chunks' worth
AppTranscripts == { <<>>, <<NL, NL, SP>>, <<"a">>, <<"a", NL, NL, "b">> }

\* --------------------------------------------------- bytes in the cache

\* the characters of the strings the app stores, with their UTF-8 bytes
CodePoint ==
    [c \in {"a", "b", NL, SP, "#", "T", "U"} |->
        CASE c = "a" -> 97 [] c = "b" -> 98 [] c = NL -> 10 [] c = SP -> 32
          [] c = "#" -> 35 [] c = "T" -> 84 [] c = "U" -> 85]

\* str -> bytes, as redis-py encodes a str value
Encode(str) == [i \in 1..Len(str) |-> CodePoint[str[i]]]

\* bytes.decode("utf-8")
Decode(bytes) ==
    [i \in 1..Len(bytes) |-> CHOOSE c \in DOMAIN CodePoint : CodePoint[c] = bytes[i]]

\* f"{video_id}_summary", f"{video_id}_transcript"
Key(video_id, kind) == <<video_id, kind>>

Keys == {Key(v, k) : v \in Videos, k \in {"transcript", "summary"}}

\* `if cached:` on what redis get returned: None and b"" are both falsy
Truthy(entry) == entry.present /\ Len(entry.value) > 0

\* ------------------------------------------------------------- the LLM

\* a summary field that is JSON null or missing: Python's None
None == <<"None">>

\* the text the LLM writes: a JSON object with a summary field ("json"), one
\* cut short or malformed that repair_json can complete ("broken"), or text
\* with no object in it ("prose"); summary is the summary field, None when
\* the object has none
Docs(summaryTexts) ==
    [kind : {"json", "broken"}, summary : summaryTexts \cup {None}]
    \cup [kind : {"prose"}, summary : {None}]

\* no text: the body of an error that carries no failed_generation
NoDoc == [kind |-> "none", summary |-> None]

\* the answers of one chat.completions.create call to a request with the
\* given text inside its tag: the call returns a completion whose content is
\* doc (api "ok"), or raises BadRequestError whose failed_generation is doc
\* (NoDoc when the body has none), or raises another API error
Answers(summaryTexts) ==
    [api : {"ok"}, doc : Docs(summaryTexts)]
    \cup [api : {"bad_request"}, doc : Docs(summaryTexts) \cup {NoDoc}]
    \cup [api : {"error"}, doc : {NoDoc}]

\* the summaries a chunk call may come back with: empty, or one naming the chunk
ChunkAnswers(chunk) == Answers({<<>>, <<"#">> \o chunk})

\* the summaries the merge call may come back with
MergeAnswers == Answers({<<>>, <<"T">>, <<"U">>})

\* ResponseModel accepting an object without a summary, as if the field were
\* declared Optional[str] = None
model_validate_OptionalSummary(obj) == obj.dict

\* ResponseModel.model_validate: the value is a dict and summary is a str
model_validate(obj) == obj.dict /\ obj.summary # None

\* ResponseModel.model_validate_json: the text parses as JSON, then as above
model_validate_json(doc) ==
    doc.kind = "json" /\ model_validate([dict |-> TRUE, summary |-> doc.summary])

\* repair_json(text, return_objects=True): the object in the text, completed
\* where it was cut; text with no object gives a value that is not a dict
repair_json(doc) ==
    [dict |-> doc.kind \in {"json", "broken"}, summary |-> doc.summary]

\* what summarize_chunk and merge_summaries do with one answer: ok says the
\* function returned, summary is response.summary, raised names the
\* exception that left the function, repairs counts the repair_json calls
\* and repaired names the text they were given
Response(ok, summary, raised, repairs, repaired) ==
    [ok |-> ok, summary |-> summary, raised |-> raised, repairs |-> repairs,
     repaired |-> repaired]

\* the try block: create, then model_validate_json of the content; exc is
\* the exception it raises, "" when it raises none
TryBlock(answer) ==
    IF answer.api = "error" THEN "APIError"
    ELSE IF answer.api = "bad_request" THEN "BadRequestError"
    ELSE IF ~model_validate_json(answer.doc) THEN "ValidationError"
    ELSE ""

\* Handler repairing a second time when the repaired value fails validation
Handler_SecondRepair(source, doc) ==
    IF doc = NoDoc THEN Response(FALSE, None, "KeyError", 0, "")
    ELSE LET repaired_json_dict == repair_json(doc) IN
         IF model_validate(repaired_json_dict)
         THEN Response(TRUE, repaired_json_dict.summary, "", 1, source)
         ELSE LET again == repair_json(doc) IN
              IF model_validate(again)
              THEN Response(TRUE, again.summary, "", 2, source)
              ELSE Response(FALSE, None, "ValidationError", 2, source)

\* the body of either except clause: repair_json of the text, then
\* model_validate of what it gives; an exception raised here leaves the
\* function (reading failed_generation from a body without one raises too)
Handler(source, doc) ==
    IF doc = NoDoc THEN Response(FALSE, None, "KeyError", 0, "")
    ELSE LET repaired_json_dict == repair_json(doc) IN
         IF model_validate(repaired_json_dict)
         THEN Response(TRUE, repaired_json_dict.summary, "", 1, source)
         ELSE Response(FALSE, None, "ValidationError", 1, source)

\* the try/except of summarize_chunk and of merge_summaries on one answer
Recover(answer) ==
    LET exc == TryBlock(answer) IN
    IF exc = "" THEN Response(TRUE, answer.doc.summary, "", 0, "")
    ELSE IF exc = "BadRequestError" THEN Handler("failed_generation", answer.doc)
    ELSE IF exc = "ValidationError" THEN Handler("content", answer.doc)
    ELSE Response(FALSE, None, exc, 0, "")

\* "<summaries>\n\n" + "\n\n".join(summaries) + "\n\n</summaries>", the tags
\* written as one character each
RECURSIVE Join(_)
Join(parts) ==
    IF parts = <<>> THEN <<>>
    ELSE IF Len(parts) = 1 THEN parts[1]
    ELSE parts[1] \o Sep \o Join(Tail(parts))

MergeContent(summaries) == <<"<">> \o Sep \o Join(summaries) \o Sep \o <<">">>

\* "<chunk>\n\n" + chunk + "\n\n</chunk>", the tags written as one character
\* each
ChunkContent(chunk) == <<"[">> \o Sep \o chunk \o Sep \o <<"]">>

\* ------------------------------------------------------- app.summarize

\* the slots app.summarize calls run in
Slots == {1}

\* what a call has done so far: calls to get_transcript (and how many of
\* them raised), to summarize_chunk
\* and to merge_summaries, redis gets, redis sets of each key, and redis sets
\* that failed
NoCalls ==
    [acquire |-> 0, acquire_failed |-> 0, chunk |-> 0, merge |-> 0, get |-> 0,
     set_transcript |-> 0, set_summary |-> 0, set_failed |-> 0]

\* history: no LLM call handled yet
NoCall ==
    [fn |-> "", index |-> 0, answer |-> [api |-> "", doc |-> NoDoc],
     response |-> Response(FALSE, None, "", 0, "")]

\* history: the answer summarize_chunk or merge_summaries just handled, the
\* position of its request among the requests of the run, and what the
\* function did with the answer
Handled(fn, index, answer) ==
    [fn |-> fn, index |-> index, answer |-> answer, response |-> Recover(answer)]

\* a slot with no call in it
Idle ==
    [pc |-> "idle", url |-> [prefix |-> "", id |-> ""], arg |-> "",
     language |-> "", video_id |-> "", transcript |-> <<>>, chunks |-> <<>>,
     cached_summary |-> Absent, cached_transcript |-> Absent,
     summaries |-> <<>>, completed |-> <<>>, chunk_failed |-> FALSE,
     merge_request |-> <<>>, summary |-> <<>>, requests |-> <<>>,
     executor |-> "gather", in_flight |-> {},
     last_call |-> NoCall, error |-> "", calls |-> NoCalls, prior |-> [known |-> FALSE]]

Init ==
    /\ max_chunk_size = AppChunkSize
    /\ text = <<>>
    /\ result = <<>>
    /\ split_pc = "call"
    /\ cache = [k \in Keys |-> Absent]
    /\ req = [r \in Slots |-> Idle]
    /\ lastOk = [known |-> FALSE]

Reqs == DOMAIN req

\* validate_request accepting every URL
validate_request_AcceptAll(url) == TRUE

\* lines 20-23: url.startswith("https://www.youtube.com/")
validate_request(url) == url.prefix = YouTubePrefix

\* YouTube(url).video_id
get_video_id(url) == url.id

\* the slot r with the fields of the record upd replaced
With(r, upd) ==
    [req EXCEPT ![r] = [f \in DOMAIN @ |-> IF f \in DOMAIN upd THEN upd[f] ELSE @[f]]]

\* the call in slot r raises
Raise(r, kind) == With(r, [pc |-> "raised", error |-> kind])

\* history: the call in slot r returns summary
Returned(r, summary) ==
    [known |-> TRUE, url |-> req[r].url, arg |-> req[r].arg, summary |-> summary]

\* history: what the call starting in a slot follows
PriorOf(url, arg) ==
    IF lastOk.known /\ lastOk.url = url /\ lastOk.arg = arg
    THEN [known |-> TRUE, summary |-> lastOk.summary]
    ELSE [known |-> FALSE]

\* lines 26-35: validation, video id, language.lower()
Start(r, url, arg) ==
    /\ req[r].pc = "idle"
    /\ IF ~validate_request(url)
       THEN req' = With(r, [pc |-> "raised", error |-> "input", url |-> url,
                            arg |-> arg])
       ELSE req' = With(r, [pc |-> "get_summary", url |-> url, arg |-> arg,
                            video_id |-> get_video_id(url),
                            language |-> Lower(arg),
                            prior |-> PriorOf(url, arg)])
    /\ UNCHANGED <<max_chunk_size, splitVars, cache, lastOk>>

\* lines 37-40: redis get of the summary; a failing get raises out of the call
GetSummary(r, getOk) ==
    /\ req[r].pc = "get_summary"
    /\ LET cached_summary == cache[Key(req[r].video_id, "summary")] IN
       IF ~getOk
       THEN /\ req' = With(r, [pc |-> "raised", error |-> "cache",
                               calls |-> [req[r].calls EXCEPT !.get = @ + 1]])
            /\ UNCHANGED lastOk
       ELSE IF Truthy(cached_summary)
       THEN /\ req' = With(r, [pc |-> "returned",
                               cached_summary |-> cached_summary,
                               summary |-> Decode(cached_summary.value),
                               calls |-> [req[r].calls EXCEPT !.get = @ + 1]])
            /\ lastOk' = Returned(r, Decode(cached_summary.value))
       ELSE /\ req' = With(r, [pc |-> "get_transcript",
                               cached_summary |-> cached_summary,
                               calls |-> [req[r].calls EXCEPT !.get = @ + 1]])
            /\ UNCHANGED lastOk
    /\ UNCHANGED <<max_chunk_size, splitVars, cache>>

\* lines 42-45: redis get of the transcript
GetCachedTranscript(r, getOk) ==
    /\ req[r].pc = "get_transcript"
    /\ LET cached_transcript == cache[Key(req[r].video_id, "transcript")] IN
       IF ~getOk
       THEN req' = With(r, [pc |-> "raised", error |-> "cache",
                            calls |-> [req[r].calls EXCEPT !.get = @ + 1]])
       ELSE IF Truthy(cached_transcript)
       THEN req' = With(r, [pc |-> "summarize",
                            cached_transcript |-> cached_transcript,
                            transcript |-> Decode(cached_transcript.value),
                            calls |-> [req[r].calls EXCEPT !.get = @ + 1]])
       ELSE req' = With(r, [pc |-> "acquire",
                            cached_transcript |-> cached_transcript,
                            calls |-> [req[r].calls EXCEPT !.get = @ + 1]])
    /\ UNCHANGED <<max_chunk_size, splitVars, cache, lastOk>>

\* Acquire going on to the pipeline with an empty transcript when
\* get_transcript raises
Acquire_FallsThrough(r, fetched, transcript) ==
    /\ req[r].pc = "acquire"
    /\ IF req[r].language \notin DOMAIN language_codes
       THEN req' = Raise(r, "transcript")
       ELSE IF ~fetched
       THEN req' = With(r, [pc |-> "summarize", transcript |-> <<>>,
                            calls |-> [req[r].calls EXCEPT
                                           !.acquire = @ + 1,
                                           !.acquire_failed = @ + 1]])
       ELSE req' = With(r, [pc |-> "set_transcript", transcript |-> transcript,
                            calls |-> [req[r].calls EXCEPT !.acquire = @ + 1]])
    /\ UNCHANGED <<max_chunk_size, splitVars, cache, lastOk>>

\* line 48: language_codes[language], then downloader.get_transcript, which
\* returns a transcript or raises; anything raised becomes the transcript error
Acquire(r, fetched, transcript) ==
    /\ req[r].pc = "acquire"
    /\ IF req[r].language \notin DOMAIN language_codes
       THEN req' = Raise(r, "transcript")
       ELSE IF ~fetched
       THEN req' = With(r, [pc |-> "raised", error |-> "transcript",
                            calls |-> [req[r].calls EXCEPT
                                           !.acquire = @ + 1,
                                           !.acquire_failed = @ + 1]])
       ELSE req' = With(r, [pc |-> "set_transcript", transcript |-> transcript,
                            calls |-> [req[r].calls EXCEPT !.acquire = @ + 1]])
    /\ UNCHANGED <<max_chunk_size, splitVars, cache, lastOk>>

\* line 49: redis set of the transcript, inside the same try
SetTranscript(r, setOk) ==
    /\ req[r].pc = "set_transcript"
    /\ IF setOk
       THEN /\ cache' = [cache EXCEPT ![Key(req[r].video_id, "transcript")] =
                            [present |-> TRUE, value |-> Encode(req[r].transcript)]]
            /\ req' = With(r, [pc |-> "summarize",
                               calls |-> [req[r].calls EXCEPT !.set_transcript = @ + 1]])
       ELSE /\ req' = With(r, [pc |-> "raised", error |-> "transcript",
                               calls |-> [req[r].calls EXCEPT !.set_failed = @ + 1]])
            /\ UNCHANGED cache
    /\ UNCHANGED <<max_chunk_size, splitVars, lastOk>>

\* gather over no coroutine is done at once; over some, all calls are issued
Launched(chunks) == [i \in 1..Len(chunks) |-> [done |-> FALSE, value |-> <<>>]]

\* ChunkRequest writing the language in front of the chunk
ChunkRequest_InLanguage(chunk, language) == <<language>> \o ChunkContent(chunk)

\* the user message summarize_chunk(chunk, language) sends: the language is
\* a parameter the function does not read
ChunkRequest(chunk, language) == ChunkContent(chunk)

\* ChunkRequests sending every chunk request a second time
ChunkRequests_Twice(chunks, language) ==
    [i \in 1..(2 * Len(chunks)) |->
        ChunkRequest(chunks[((i - 1) % Len(chunks)) + 1], language)]

\* the user messages of the summarize_chunk(chunk, language) calls handed to
\* gather, one per chunk, in chunk order
ChunkRequests(chunks, language) ==
    [i \in 1..Len(chunks) |-> ChunkRequest(chunks[i], language)]

\* line 56 and AsyncTranscriptSummarizer.summarize lines 344-350:
\* language_codes[language], split_in_chunks, one summarize_chunk coroutine
\* per chunk, all handed to asyncio.gather
StartPipeline(r) ==
    /\ req[r].pc = "summarize"
    /\ req[r].executor = "gather"
    /\ IF req[r].language \notin DOMAIN language_codes
       THEN req' = Raise(r, "summarization")
       ELSE LET chunks == split_in_chunks(req[r].transcript, max_chunk_size) IN
            req' = With(r, [pc |-> "gather", chunks |-> chunks,
                            summaries |-> Launched(chunks),
                            in_flight |-> DOMAIN Launched(chunks),
                            requests |->
                                ChunkRequests(chunks, language_codes[req[r].language]),
                            calls |-> [req[r].calls EXCEPT !.chunk =
                                Len(ChunkRequests(chunks,
                                                  language_codes[req[r].language]))]])
    /\ UNCHANGED <<max_chunk_size, splitVars, cache, lastOk>>

\* GatherStore putting the results in the order the calls complete
GatherStore_CompletionOrder(summaries, i, value) ==
    LET first == CHOOSE j \in DOMAIN summaries :
                     /\ ~summaries[j].done
                     /\ \A k \in 1..(j - 1) : summaries[k].done
    IN [summaries EXCEPT ![first] = [done |-> TRUE, value |-> value]]

\* asyncio.gather: the result of the i-th coroutine goes to position i
GatherStore(summaries, i, value) ==
    [summaries EXCEPT ![i] = [done |-> TRUE, value |-> value]]

\* GatherFailure keeping the other summaries: the failed chunk counts as an
\* empty summary and the pipeline goes on
GatherFailure_Partial(r, i) ==
    With(r, [summaries |->
             [req[r].summaries EXCEPT ![i] = [done |-> TRUE, value |-> <<>>]]])

\* a summarize_chunk call that raises: gather raises it to summarize, which
\* raises it to app.summarize, whose except (lines 58-61) raises the
\* summarization error
GatherFailure(r, i) == Raise(r, "summarization")

\* one summarize_chunk call completes (lines 253-284), in any order; a call
\* that raises makes gather raise, which line 58 turns into the
\* summarization error
ChunkReturns(r, i, answer) ==
    /\ req[r].pc = "gather"
    /\ req[r].executor = "gather"
    /\ i \in req[r].in_flight
    /\ answer \in ChunkAnswers(req[r].chunks[i])
    /\ LET response == Recover(answer) IN
       IF response.ok
       THEN req' = With(r, [summaries |->
                            GatherStore(req[r].summaries, i, response.summary),
                            completed |-> Append(req[r].completed, i),
                            in_flight |-> req[r].in_flight \ {i},
                            last_call |-> Handled("summarize_chunk", i, answer)])
       ELSE req' = [GatherFailure(r, i) EXCEPT
                        ![r].chunk_failed = TRUE,
                        ![r].in_flight = @ \ {i},
                        ![r].last_call = Handled("summarize_chunk", i, answer)]
    /\ UNCHANGED <<max_chunk_size, splitVars, cache, lastOk>>

\* the list asyncio.gather returns
Gathered(summaries) == [i \in DOMAIN summaries |-> summaries[i].value]

\* IssueMerge going on as soon as one chunk call is back
IssueMerge_AfterFirst(r) ==
    /\ req[r].pc = "gather"
    /\ \E i \in DOMAIN req[r].summaries : req[r].summaries[i].done
    /\ req' = With(r, [pc |-> "merge",
                       merge_request |-> MergeContent(Gathered(req[r].summaries)),
                       requests |-> Append(req[r].requests,
                                           MergeContent(Gathered(req[r].summaries))),
                       calls |-> [req[r].calls EXCEPT !.merge = @ + 1]])
    /\ UNCHANGED <<max_chunk_size, splitVars, cache, lastOk>>

\* lines 350-353 and 296-313 (lines 184-185 in the thread version): every
\* chunk call is back; merge_summaries sends its request
IssueMerge(r) ==
    /\ req[r].pc = "gather"
    /\ \A i \in DOMAIN req[r].summaries : req[r].summaries[i].done
    /\ req' = With(r, [pc |-> "merge",
                       merge_request |-> MergeContent(Gathered(req[r].summaries)),
                       requests |-> Append(req[r].requests,
                                           MergeContent(Gathered(req[r].summaries))),
                       calls |-> [req[r].calls EXCEPT !.merge = @ + 1]])
    /\ UNCHANGED <<max_chunk_size, splitVars, cache, lastOk>>

\* lines 315-330 and 355: the merge call completes
MergeReturns(r, answer) ==
    /\ req[r].pc = "merge"
    /\ answer \in MergeAnswers
    /\ LET response == Recover(answer) IN
       IF response.ok
       THEN req' = With(r, [pc |-> "set_summary", summary |-> response.summary,
                            last_call |-> Handled("merge_summaries", Len(req[r].requests), answer)])
       ELSE req' = With(r, [pc |-> "raised", error |-> "summarization",
                            last_call |-> Handled("merge_summaries", Len(req[r].requests), answer)])
    /\ UNCHANGED <<max_chunk_size, splitVars, cache, lastOk>>

\* history: a write of the summary by slot r ends what the other slots follow
ForgetPrior(r) ==
    [q \in Reqs |-> IF q = r THEN req[q]
                    ELSE [req[q] EXCEPT !.prior = [known |-> FALSE]]]

\* SetSummary keeping the entry that is already there, as SET with NX would
SetSummary_KeepsFirst(r, setOk) ==
    /\ req[r].pc = "set_summary"
    /\ IF setOk
       THEN /\ cache' = IF cache[Key(req[r].video_id, "summary")].present
                        THEN cache
                        ELSE [cache EXCEPT ![Key(req[r].video_id, "summary")] =
                                 [present |-> TRUE, value |-> Encode(req[r].summary)]]
            /\ req' = [ForgetPrior(r) EXCEPT ![r] =
                          [@ EXCEPT !.pc = "returned", !.calls.set_summary = @ + 1]]
            /\ lastOk' = Returned(r, req[r].summary)
       ELSE /\ req' = With(r, [pc |-> "raised", error |-> "summarization",
                               calls |-> [req[r].calls EXCEPT !.set_failed = @ + 1]])
            /\ UNCHANGED <<cache, lastOk>>
    /\ UNCHANGED <<max_chunk_size, splitVars>>

\* lines 57-67: redis set of the summary, inside the try of the pipeline;
\* then the summary is returned
SetSummary(r, setOk) ==
    /\ req[r].pc = "set_summary"
    /\ IF setOk
       THEN /\ cache' = [cache EXCEPT ![Key(req[r].video_id, "summary")] =
                            [present |-> TRUE, value |-> Encode(req[r].summary)]]
            /\ req' = [ForgetPrior(r) EXCEPT ![r] =
                          [@ EXCEPT !.pc = "returned", !.calls.set_summary = @ + 1]]
            /\ lastOk' = Returned(r, req[r].summary)
       ELSE /\ req' = With(r, [pc |-> "raised", error |-> "summarization",
                               calls |-> [req[r].calls EXCEPT !.set_failed = @ + 1]])
            /\ UNCHANGED <<cache, lastOk>>
    /\ UNCHANGED <<max_chunk_size, splitVars>>

\* the caller has the result or the error; the slot is free again
Finish(r) ==
    /\ req[r].pc \in {"returned", "raised"}
    /\ req' = [req EXCEPT ![r] = Idle]
    /\ UNCHANGED <<max_chunk_size, splitVars, cache, lastOk>>

\* utils/clear_cache.py: FLUSHALL
clear_cache ==
    /\ \E k \in Keys : cache[k].present
    /\ cache' = [k \in Keys |-> Absent]
    /\ lastOk' = [known |-> FALSE]
    /\ req' = [q \in Reqs |-> [req[q] EXCEPT !.prior = [known |-> FALSE]]]
    /\ UNCHANGED <<max_chunk_size, splitVars>>

Next ==
    \/ \E r \in Reqs, url \in Urls, arg \in LanguageInputs : Start(r, url, arg)
    \/ \E r \in Reqs, getOk \in BOOLEAN : GetSummary(r, getOk)
    \/ \E r \in Reqs, getOk \in BOOLEAN : GetCachedTranscript(r, getOk)
    \/ \E r \in Reqs, fetched \in BOOLEAN, t \in AppTranscripts : Acquire(r, fetched, t)
    \/ \E r \in Reqs, setOk \in BOOLEAN : SetTranscript(r, setOk)
    \/ \E r \in Reqs : StartPipeline(r)
    \/ \E r \in Reqs : \E i \in DOMAIN req[r].summaries :
           \E answer \in ChunkAnswers(req[r].chunks[i]) :
               ChunkReturns(r, i, answer)
    \/ \E r \in Reqs : IssueMerge(r)
    \/ \E r \in Reqs, answer \in MergeAnswers : MergeReturns(r, answer)
    \/ \E r \in Reqs, setOk \in BOOLEAN : SetSummary(r, setOk)
    \/ \E r \in Reqs : Finish(r)
    \/ clear_cache

Spec == Init /\ [][Next]_vars

\* --------------------------- two requests for the same uncached video

\* the slots of the two requests
RaceSlots == {1, 2}

\* the URL both requests name
RaceUrl == [prefix |-> YouTubePrefix, id |-> "abc123"]

\* the languages they ask for
RaceLanguages == {"English", "french"}

\* what get_transcript may return to either of them
RaceTranscripts == { <<"a">>, <<"a", NL, NL, "b">> }

\* the answers the LLM gives them: content that passes the strict parse
RaceChunkAnswers(chunk) ==
    { [api |-> "ok", doc |-> [kind |-> "json", summary |-> <<"#">> \o chunk]] }

RaceMergeAnswers ==
    { [api |-> "ok", doc |-> [kind |-> "json", summary |-> t]] : t \in {<<"T">>, <<"U">>} }

\* both slots free, nothing cached
InitRace ==
    /\ max_chunk_size = AppChunkSize
    /\ text = <<>>
    /\ result = <<>>
    /\ split_pc = "call"
    /\ cache = [k \in Keys |-> Absent]
    /\ req = [r \in RaceSlots |-> Idle]
    /\ lastOk = [known |-> FALSE]

\* one step of the request in slot r, with redis, the downloader and the LLM
\* all answering
RaceStep(r) ==
    \/ \E arg \in RaceLanguages : Start(r, RaceUrl, arg)
    \/ GetSummary(r, TRUE)
    \/ GetCachedTranscript(r, TRUE)
    \/ \E t \in RaceTranscripts : Acquire(r, TRUE, t)
    \/ SetTranscript(r, TRUE)
    \/ StartPipeline(r)
    \/ \E i \in DOMAIN req[r].summaries :
           \E answer \in RaceChunkAnswers(req[r].chunks[i]) :
               ChunkReturns(r, i, answer)
    \/ IssueMerge(r)
    \/ \E answer \in RaceMergeAnswers : MergeReturns(r, answer)
    \/ SetSummary(r, TRUE)

NextRace ==
    \/ RaceStep(1)
    \/ RaceStep(2)

SpecRace == InitRace /\ [][NextRace]_vars

\* ------------------- two runs of the pipeline that differ in the language

\* the transcripts the two runs are given, found in the cache
LangTranscripts == { <<"a">>, <<"a", NL, NL, "b">> }

\* the language of each run
LangOf == [r \in RaceSlots |-> IF r = 1 THEN "English" ELSE "french"]

\* both slots free, the transcript of the video cached by an earlier call
InitLang ==
    /\ max_chunk_size = AppChunkSize
    /\ text = <<>>
    /\ result = <<>>
    /\ split_pc = "call"
    /\ \E t \in LangTranscripts :
           cache = [k \in Keys |->
                       IF k = Key(RaceUrl.id, "transcript")
                       THEN [present |-> TRUE, value |-> Encode(t)]
                       ELSE Absent]
    /\ req = [r \in RaceSlots |-> Idle]
    /\ lastOk = [known |-> FALSE]

\* each call up to the pipeline: validation, the two cache gets, the chunks
\* and the chunk requests
LangCall(r) ==
    \/ Start(r, RaceUrl, LangOf[r])
    \/ GetSummary(r, TRUE)
    \/ GetCachedTranscript(r, TRUE)
    \/ StartPipeline(r)
    \/ IssueMerge(r)

\* run 2 has handled every answer run 1 has handled
Synced == req[1].last_call.index = req[2].last_call.index

\* run 1 gets the answer to one of its chunk requests, in any order
LeadChunk(i, answer) ==
    /\ Synced
    /\ req[2].pc = "gather"
    /\ ChunkReturns(1, i, answer)

\* run 2 gets the answer to the request at the same position: the answer
\* run 1 got when it sent the same request, any answer when it sent another
FollowChunk(i, answer) ==
    /\ ~Synced
    /\ req[1].last_call.fn = "summarize_chunk"
    /\ i = req[1].last_call.index
    /\ req[2].requests[i] = req[1].requests[i] => answer = req[1].last_call.answer
    /\ ChunkReturns(2, i, answer)

\* run 1 gets the answer to its merge request
LeadMerge(answer) ==
    /\ Synced
    /\ req[2].pc = "merge"
    /\ MergeReturns(1, answer)

\* run 2 gets the answer to its merge request, likewise
FollowMerge(answer) ==
    /\ ~Synced
    /\ req[1].last_call.fn = "merge_summaries"
    /\ req[2].merge_request = req[1].merge_request => answer = req[1].last_call.answer
    /\ MergeReturns(2, answer)

NextLang ==
    \/ \E r \in Reqs : LangCall(r)
    \/ \E i \in DOMAIN req[1].summaries :
           \E answer \in ChunkAnswers(req[1].chunks[i]) : LeadChunk(i, answer)
    \/ \E i \in DOMAIN req[2].summaries :
           \E answer \in ChunkAnswers(req[2].chunks[i]) : FollowChunk(i, answer)
    \/ \E answer \in MergeAnswers : LeadMerge(answer)
    \/ \E answer \in MergeAnswers : FollowMerge(answer)

SpecLang == InitLang /\ [][NextLang]_vars

\* ------------------------- one pipeline run, by coroutines or by threads

\* the threads of ThreadPoolExecutor(): its default max_workers, scaled to
\* the transcripts below
max_workers == PoolWorkers

\* the transcripts of the runs: one, two and three chunks
FanTranscripts ==
    { <<"a">>, <<"a", NL, NL, "b">>, <<"a", NL, NL, "b", NL, NL, "a">> }

\* the calls a pool with max_workers threads runs at once out of those
\* submitted and not done: the first ones in submission order
Running(summaries) ==
    LET waiting == { i \in DOMAIN summaries : ~summaries[i].done } IN
    { i \in waiting : Cardinality({ j \in waiting : j < i }) < max_workers }

\* TranscriptSummarizer.summarize lines 175-183: split_in_chunks, then
\* executor.map submits one summarize_chunk call per chunk; the pool runs up
\* to max_workers of them and keeps the others queued
PoolStart(r) ==
    /\ req[r].pc = "summarize"
    /\ req[r].executor = "pool"
    /\ LET chunks == split_in_chunks(req[r].transcript, max_chunk_size) IN
       req' = With(r, [pc |-> "gather", chunks |-> chunks,
                       summaries |-> Launched(chunks),
                       in_flight |-> Running(Launched(chunks)),
                       requests |-> ChunkRequests(chunks, req[r].language),
                       calls |-> [req[r].calls EXCEPT !.chunk = Len(chunks)]])
    /\ UNCHANGED <<max_chunk_size, splitVars, cache, lastOk>>

\* a summarize_chunk call run by a thread completes (lines 71-115): its
\* result goes to position i of the list and the thread takes the next
\* queued call; a call that raises makes list(executor.map(...)) raise
PoolChunkReturns(r, i, answer) ==
    /\ req[r].pc = "gather"
    /\ req[r].executor = "pool"
    /\ i \in req[r].in_flight
    /\ answer \in ChunkAnswers(req[r].chunks[i])
    /\ LET response == Recover(answer) IN
       IF response.ok
       THEN LET stored == GatherStore(req[r].summaries, i, response.summary) IN
            req' = With(r, [summaries |-> stored,
                            completed |-> Append(req[r].completed, i),
                            in_flight |-> Running(stored),
                            last_call |-> Handled("summarize_chunk", i, answer)])
       ELSE req' = With(r, [pc |-> "raised", error |-> "summarization",
                            chunk_failed |-> TRUE,
                            in_flight |-> req[r].in_flight \ {i},
                            last_call |-> Handled("summarize_chunk", i, answer)])
    /\ UNCHANGED <<max_chunk_size, splitVars, cache, lastOk>>

\* a run of either summarize about to start on one of the transcripts
InitFan ==
    /\ max_chunk_size = AppChunkSize
    /\ text = <<>>
    /\ result = <<>>
    /\ split_pc = "call"
    /\ cache = [k \in Keys |-> Absent]
    /\ \E t \in FanTranscripts, e \in {"gather", "pool"} :
           req = [r \in Slots |->
                     [Idle EXCEPT !.pc = "summarize", !.language = "english",
                                  !.transcript = t, !.executor = e]]
    /\ lastOk = [known |-> FALSE]

NextFan ==
    \/ \E r \in Reqs : StartPipeline(r)
    \/ \E r \in Reqs : \E i \in DOMAIN req[r].summaries :
           \E answer \in ChunkAnswers(req[r].chunks[i]) :
               ChunkReturns(r, i, answer)
    \/ \E r \in Reqs : PoolStart(r)
    \/ \E r \in Reqs : \E i \in DOMAIN req[r].summaries :
           \E answer \in ChunkAnswers(req[r].chunks[i]) :
               PoolChunkReturns(r, i, answer)
    \/ \E r \in Reqs : IssueMerge(r)
    \/ \E r \in Reqs, answer \in MergeAnswers : MergeReturns(r, answer)

SpecFan == InitFan /\ [][NextFan]_vars

\* ------------------------------------------------- claims on the chunker

\* "\n\n".join(parts)
RECURSIVE JoinSep(_)
JoinSep(parts) ==
    IF parts = <<>> THEN <<>>
    ELSE IF Len(parts) = 1 THEN parts[1]
    ELSE parts[1] \o Sep \o JoinSep(Tail(parts))

\* the paragraphs of a list of chunks, read chunk after chunk
RECURSIVE ParagraphsOf(_)
ParagraphsOf(chunks) ==
    IF chunks = <<>> THEN <<>>
    ELSE ReSplit(chunks[1]) \o ParagraphsOf(Tail(chunks))

\* every paragraph trimmed, the blank ones left out
Trimmed(paragraphs) ==
    DropEmpty([i \in 1..Len(paragraphs) |-> Strip(paragraphs[i])])

\* the longest run of newlines in t
LongestNewlineRun(t) ==
    IF t = <<>> THEN 0
    ELSE LET runs == {NewlineRun(t, i) : i \in 1..Len(t)} IN
         CHOOSE m \in runs : \A n \in runs : n <= m

\* C8 as stated: a transcript no longer than max_chunk_size comes back as
\* exactly one chunk, the trimmed transcript
C8_Original ==
    (split_pc = "returned" /\ Len(text) <= max_chunk_size)
        => result = <<Strip(text)>>

\* C8 amended: a transcript with visible content that is strictly shorter
\* than max_chunk_size comes back as exactly one chunk: its paragraphs joined
\* by two newlines and trimmed, which is the trimmed transcript when it has
\* no run of more than two newlines
C8_ShortTranscriptOneChunk ==
    (split_pc = "returned" /\ Len(text) < max_chunk_size
        /\ Strip(text) # <<>>)
        => /\ result = <<Strip(JoinSep(ReSplit(text)))>>
           /\ LongestNewlineRun(Strip(text)) <= 2 => result = <<Strip(text)>>

\* C8 witness: two paragraphs of total length max_chunk_size - 1 in one chunk
C8_Witness ==
    /\ split_pc = "returned"
    /\ Len(text) = max_chunk_size - 1
    /\ Len(Trimmed(ReSplit(text))) >= 2
    /\ result = <<Strip(text)>>

\* C9 as stated: the paragraphs read from the chunks are the non-empty
\* paragraphs of the transcript, in order
C9_Original ==
    split_pc = "returned"
        => ParagraphsOf(result) = DropEmpty(ReSplit(text))

\* C9 amended: up to the whitespace strip() removes, the paragraphs read from
\* the chunks are the paragraphs of the transcript in order: trimmed and with
\* the blank ones left out, the two sequences are equal
C9_ParagraphsPreserved ==
    split_pc = "returned"
        => Trimmed(ParagraphsOf(result)) = Trimmed(ReSplit(text))

\* C9 witness: three paragraphs in two chunks, one chunk holding two of them
C9_Witness ==
    /\ split_pc = "returned"
    /\ Len(Trimmed(ReSplit(text))) = 3
    /\ Len(result) = 2
    /\ \E i \in 1..Len(result) : Len(ReSplit(result[i])) = 2

\* C10: a chunk longer than max_chunk_size is one paragraph of the
\* transcript (trimmed) that alone is longer than max_chunk_size, and a chunk
\* holding two or more paragraphs is never longer than max_chunk_size
C10_ChunkSizeBound ==
    split_pc = "returned" =>
        \A i \in 1..Len(result) :
            /\ Len(result[i]) > max_chunk_size =>
                   \E j \in 1..Len(ReSplit(text)) :
                       /\ Len(ReSplit(text)[j]) > max_chunk_size
                       /\ result[i] = Strip(ReSplit(text)[j])
            /\ Len(ReSplit(result[i])) >= 2 =>
                   Len(result[i]) <= max_chunk_size

\* C10 witness: a chunk of two paragraphs at the largest length the loop lets
\* through, max_chunk_size - 1, followed by another chunk
C10_Witness ==
    /\ split_pc = "returned"
    /\ Len(result) >= 2
    /\ Len(ReSplit(result[1])) = 2
    /\ Len(result[1]) = max_chunk_size - 1

\* ---------------------------------------------- claims on app.summarize

C2_Original ==
    \A r \in Reqs :
        (req[r].prior.known /\ req[r].error # "cache") =>
            /\ req[r].pc \in {"get_summary", "returned"}
            /\ req[r].pc = "returned" => req[r].summary = req[r].prior.summary
            /\ req[r].calls.chunk = 0
            /\ req[r].calls.merge = 0

\* C3 as stated: a call one of whose cache sets failed does not raise
C3_Original ==
    \A r \in Reqs : req[r].calls.set_failed > 0 => req[r].pc # "raised"

\* C4 as stated: a failing cache get never makes the call raise
C4_Original ==
    \A r \in Reqs : ~(req[r].pc = "raised" /\ req[r].error = "cache")

\* C5 as stated: a call that found no summary entry but found a transcript
\* entry uses it, never calls get_transcript and never sets the transcript,
\* and when it returns it has run every chunk call and the merge and has set
\* the summary
C5_Original ==
    \A r \in Reqs :
        (~req[r].cached_summary.present /\ req[r].cached_transcript.present) =>
            /\ req[r].transcript = Decode(req[r].cached_transcript.value)
            /\ req[r].calls.acquire = 0
            /\ req[r].calls.set_transcript = 0
            /\ req[r].pc = "returned" =>
                   /\ req[r].calls.chunk = Len(req[r].chunks)
                   /\ req[r].calls.merge = 1
                   /\ req[r].calls.set_summary = 1

\* the summaries the merge must be given for the chunks of a transcript: at
\* position i the summary of the i-th chunk, which is empty or names it
InChunkOrder(r) ==
    LET chunks == split_in_chunks(req[r].transcript, max_chunk_size) IN
    [i \in 1..Len(chunks) |->
        IF req[r].summaries[i].value = <<>> THEN <<>> ELSE <<"#">> \o chunks[i]]

\* C6: whatever the order the chunk calls complete in, the merge request is
\* made of one summary per chunk, the i-th being the summary of the i-th
\* chunk split_in_chunks returned, joined in that order
C6_MergeInChunkOrder ==
    \A r \in Reqs :
        req[r].calls.merge > 0 =>
            /\ Len(req[r].summaries) =
                   Len(split_in_chunks(req[r].transcript, max_chunk_size))
            /\ req[r].merge_request =
                   <<"<">> \o Sep \o JoinSep(InChunkOrder(r)) \o Sep \o <<">">>

\* C6 witness: two chunks whose calls completed last chunk first, both with a
\* summary naming their chunk, and the merge request sent
C6_Witness ==
    \E r \in Reqs :
        /\ req[r].calls.merge = 1
        /\ req[r].completed = <<2, 1>>
        /\ \A i \in 1..2 : req[r].summaries[i].value # <<>>

\* C7: once a chunk call of a pipeline run has failed for good, the call has
\* raised the summarization error, no merge call was made, no summary is
\* returned and no summary entry was set
C7_AllOrNothing ==
    \A r \in Reqs :
        req[r].chunk_failed =>
            /\ req[r].pc = "raised"
            /\ req[r].error = "summarization"
            /\ req[r].calls.merge = 0
            /\ req[r].calls.set_summary = 0
            /\ req[r].summary = <<>>

\* C7 witness: of two chunk calls the first came back with a summary and the
\* second failed
C7_Witness ==
    \E r \in Reqs :
        /\ req[r].chunk_failed
        /\ req[r].completed = <<1>>
        /\ Len(req[r].chunks) = 2
        /\ req[r].summaries[1].value # <<>>

\* ------------------------------------------ more claims on the chunker

\* C11 as stated: every paragraph longer than max_chunk_size is a chunk of
\* the result as it stands in the transcript
C11_Original ==
    split_pc = "returned" =>
        \A j \in 1..Len(ReSplit(text)) :
            Len(ReSplit(text)[j]) > max_chunk_size =>
                \E i \in 1..Len(result) : result[i] = ReSplit(text)[j]

\* C11 amended: a paragraph longer than max_chunk_size that has visible
\* content is a chunk of its own, equal to the paragraph trimmed of
\* surrounding whitespace (so unmodified when it has none): the result is
\* the chunks of the paragraphs before it, then that chunk, then the chunks
\* of the paragraphs after it
C11_OversizedParagraphOwnChunk ==
    split_pc = "returned" =>
        LET paragraphs == ReSplit(text) IN
        \A j \in 1..Len(paragraphs) :
            (Len(paragraphs[j]) > max_chunk_size /\ Strip(paragraphs[j]) # <<>>) =>
                result =
                    split_in_chunks(JoinSep(SubSeq(paragraphs, 1, j - 1)),
                                    max_chunk_size)
                    \o <<Strip(paragraphs[j])>>
                    \o split_in_chunks(JoinSep(SubSeq(paragraphs, j + 1,
                                                      Len(paragraphs))),
                                       max_chunk_size)

\* C11 witness: a paragraph longer than max_chunk_size between two others,
\* alone in the second of three chunks and unmodified
C11_Witness ==
    /\ split_pc = "returned"
    /\ Len(ReSplit(text)) = 3
    /\ Len(ReSplit(text)[2]) > max_chunk_size
    /\ Len(result) = 3
    /\ result[2] = ReSplit(text)[2]

\* ------------------------------------- claims on the LLM call handlers

\* the calls already handled, one per slot that has handled one
HandledCalls == { req[r].last_call : r \in { q \in Reqs : req[q].last_call.fn # "" } }

\* the text repairs to an object that passes validation
Repairable(doc) == doc.kind \in {"json", "broken"} /\ doc.summary # None

\* C12: summarize_chunk and merge_summaries recover alike: content that
\* passes the strict parse is returned with no repair; a bad-request error
\* carrying a failed_generation is repaired once, from that text, and
\* revalidated; content that fails the strict parse is repaired once, from
\* the content, and revalidated; a repaired value that still fails raises
\* the validation error with no second repair; any other API failure
\* propagates with no repair
C12_RecoveryProtocol ==
    \A c \in HandledCalls :
        LET a == c.answer
            t == c.response
        IN /\ c.fn \in {"summarize_chunk", "merge_summaries"}
           /\ t.repairs <= 1
           /\ (a.api = "ok" /\ a.doc.kind = "json" /\ a.doc.summary # None)
                  => (t.ok /\ t.repairs = 0 /\ t.summary = a.doc.summary)
           /\ (a.api = "bad_request" /\ a.doc # NoDoc)
                  => (t.repairs = 1 /\ t.repaired = "failed_generation")
           /\ (a.api = "ok" /\ ~(a.doc.kind = "json" /\ a.doc.summary # None))
                  => (t.repairs = 1 /\ t.repaired = "content")
           /\ t.repairs = 1
                  => /\ t.ok <=> Repairable(a.doc)
                     /\ t.ok => t.summary = a.doc.summary
                     /\ ~t.ok => t.raised = "ValidationError"
           /\ a.api = "error"
                  => (~t.ok /\ t.repairs = 0 /\ t.raised = "APIError")

\* C12 witness: merge_summaries repaired the failed_generation of a
\* bad-request error, the repaired value failed validation, and the call
\* raised the summarization error after one repair
C12_Witness ==
    \E r \in Reqs :
        /\ req[r].pc = "raised"
        /\ req[r].error = "summarization"
        /\ req[r].last_call.fn = "merge_summaries"
        /\ req[r].last_call.answer.api = "bad_request"
        /\ req[r].last_call.answer.doc.kind = "broken"
        /\ req[r].last_call.response.repairs = 1
        /\ req[r].last_call.response.raised = "ValidationError"

\* C13: a response that lacks the summary field makes summarize_chunk and
\* merge_summaries either return a string or raise the validation error,
\* never return None: every summary handed to merge_summaries, and every
\* summary handed to the caller, is a string
C13_SummaryIsString ==
    /\ \A c \in HandledCalls :
           (c.answer.doc # NoDoc /\ c.answer.doc.summary = None) =>
               \/ ~c.response.ok /\ c.response.raised = "ValidationError"
               \/ c.response.ok /\ c.response.summary # None
    /\ \A c \in HandledCalls : c.response.ok => c.response.summary # None
    /\ \A r \in Reqs :
           /\ req[r].summary # None
           /\ \A i \in DOMAIN req[r].summaries :
                  req[r].summaries[i].done => req[r].summaries[i].value # None

\* C13 witness: summarize_chunk got a well-formed JSON object without a
\* summary field, repaired it, and raised the validation error
C13_Witness ==
    \E r \in Reqs :
        /\ req[r].pc = "raised"
        /\ req[r].chunk_failed
        /\ req[r].last_call.fn = "summarize_chunk"
        /\ req[r].last_call.answer.api = "ok"
        /\ req[r].last_call.answer.doc = [kind |-> "json", summary |-> None]
        /\ req[r].last_call.response.raised = "ValidationError"

\* ------------------------------------------ more claims on app.summarize

\* the call in slot r is over
Over(r) == req[r].pc \in {"returned", "raised"}

\* the call in slot r called the LLM
CalledLLM(r) == req[r].calls.chunk > 0 \/ req[r].calls.merge > 0

\* C14 as stated: a language other than english or french, in any case, is
\* rejected as an input error whatever the cache holds: the call raises the
\* input error, returns no summary, and makes no acquisition or LLM call
\* (calls that a failing redis get ended are left aside)
C14_Original ==
    \A r \in Reqs :
        (/\ Over(r)
         /\ req[r].error # "cache"
         /\ Lower(req[r].arg) \notin DOMAIN language_codes) =>
            /\ req[r].pc = "raised"
            /\ req[r].error = "input"
            /\ req[r].calls.acquire = 0
            /\ ~CalledLLM(r)

\* C15: a URL that does not start with "https://www.youtube.com/" is
\* rejected with the input error before anything else runs: the call
\* resolves no video id, reads and writes no cache key, acquires nothing,
\* calls no LLM, and its steps leave the cache as it was
C15_InvalidUrlRejectedFirst ==
    [][\A r \in Reqs :
           (req'[r].pc # "idle" /\ req'[r].url.prefix # "https://www.youtube.com/") =>
               /\ req'[r].pc = "raised"
               /\ req'[r].error = "input"
               /\ req'[r].video_id = ""
               /\ req'[r].calls = NoCalls
               /\ req'[r].cached_summary = Absent
               /\ req'[r].cached_transcript = Absent
               /\ req'[r].requests = <<>>
               /\ (req'[r] # req[r] => cache' = cache)]_vars

\* C15 witness: a call with a URL of another host was rejected with the
\* input error while the cache held entries for the video it names
C15_Witness ==
    \E r \in Reqs :
        /\ req[r].pc = "raised"
        /\ req[r].error = "input"
        /\ req[r].url.prefix # YouTubePrefix
        /\ cache[Key(req[r].url.id, "summary")].present
        /\ cache[Key(req[r].url.id, "transcript")].present

\* the call in slot r ran the whole pipeline and returned its summary
PipelineReturned(r) == req[r].pc = "returned" /\ req[r].calls.set_summary = 1

\* C16: no retry: each chunk is sent to the LLM at most once and the merge
\* request at most once, whether the call succeeds, is repaired or fails; a
\* call that returns the summary of N chunks sent exactly the N chunk
\* requests, in chunk order, followed by exactly one merge request
C16_NoRetry ==
    \A r \in Reqs :
        /\ req[r].calls.chunk <= Len(req[r].chunks)
        /\ req[r].calls.merge <= 1
        /\ Len(req[r].requests) = req[r].calls.chunk + req[r].calls.merge
        /\ \A i, j \in DOMAIN req[r].completed :
               req[r].completed[i] = req[r].completed[j] => i = j
        /\ req[r].calls.merge = 1 =>
               /\ req[r].calls.chunk = Len(req[r].chunks)
               /\ Len(req[r].completed) = Len(req[r].chunks)
        /\ PipelineReturned(r) =>
               /\ req[r].calls.chunk = Len(req[r].chunks)
               /\ req[r].calls.merge = 1
               /\ req[r].requests =
                      [i \in 1..Len(req[r].chunks) |-> ChunkContent(req[r].chunks[i])]
                      \o <<req[r].merge_request>>

\* C16 witness: a call over two chunks returned after a repaired chunk
\* answer: two chunk requests and one merge request were sent
C16_Witness ==
    \E r \in Reqs :
        /\ PipelineReturned(r)
        /\ Len(req[r].chunks) = 2
        /\ Len(req[r].requests) = 3
        /\ req[r].last_call.fn = "merge_summaries"
        /\ req[r].last_call.response.repairs = 1

\* C18: when acquisition fails the call raises the transcript error, which
\* is not the summarization error; get_transcript was called exactly once,
\* no LLM call was made and the call wrote neither cache key
C18_AcquisitionFailure ==
    \A r \in Reqs :
        req[r].calls.acquire_failed > 0 =>
            /\ req[r].pc = "raised"
            /\ req[r].error = "transcript"
            /\ req[r].error # "summarization"
            /\ req[r].calls.acquire = 1
            /\ ~CalledLLM(r)
            /\ req[r].requests = <<>>
            /\ req[r].calls.set_transcript = 0
            /\ req[r].calls.set_summary = 0
            /\ req[r].calls.set_failed = 0

\* C18 witness: get_transcript raised for a video with nothing cached; the
\* call raised the transcript error and the cache is still empty
C18_Witness ==
    \E r \in Reqs :
        /\ req[r].calls.acquire_failed = 1
        /\ req[r].error = "transcript"
        /\ \A k \in Keys : ~cache[k].present

\* C20 as stated: within a call the transcript key is set only after
\* get_transcript returned and before any LLM request, and the summary key
\* only after the merge call returned its summary; so a call that fails in
\* summarization leaves the transcript entry in place, and a later call that
\* finds the entry goes on without acquisition
C20_Original ==
    [][\A r \in Reqs :
           /\ req'[r].calls.set_transcript > req[r].calls.set_transcript =>
                  /\ req[r].calls.acquire = 1
                  /\ req[r].calls.acquire_failed = 0
                  /\ ~CalledLLM(r)
                  /\ cache'[Key(req[r].video_id, "transcript")] =
                         [present |-> TRUE, value |-> Encode(req[r].transcript)]
           /\ (req'[r].requests # <<>> /\ req[r].requests = <<>>
               /\ req[r].calls.acquire = 1) =>
                  req[r].calls.set_transcript = 1
           /\ req'[r].calls.set_summary > req[r].calls.set_summary =>
                  /\ req[r].calls.merge = 1
                  /\ req[r].last_call.fn = "merge_summaries"
                  /\ req[r].last_call.response.ok
                  /\ req[r].summary = req[r].last_call.response.summary
           /\ (req'[r].pc = "raised" /\ req'[r].error = "summarization"
               /\ req[r].pc # "raised") =>
                  cache' = cache
           /\ (req[r].pc = "get_transcript" /\ req'[r].pc # "get_transcript"
               /\ cache[Key(req[r].video_id, "transcript")].present) =>
                  req'[r].pc \in {"summarize", "raised"}]_vars

\* ------------------------------------- claims on two concurrent requests

\* the call in slot r ran the whole pipeline on its transcript: every chunk
\* call, then the merge, whose summary it holds
CompleteRun(r) ==
    /\ req[r].chunks = split_in_chunks(req[r].transcript, max_chunk_size)
    /\ req[r].calls.chunk = Len(req[r].chunks)
    /\ Len(req[r].completed) = Len(req[r].chunks)
    /\ req[r].calls.merge = 1
    /\ req[r].last_call.fn = "merge_summaries"
    /\ req[r].last_call.response.ok
    /\ req[r].summary = req[r].last_call.response.summary

\* the safety half of C17
RaceSafe ==
    /\ \A r \in Reqs : req[r].pc # "raised"
    /\ \A r \in Reqs :
           req[r].pc = "returned" =>
               \E q \in Reqs :
                   /\ CompleteRun(q)
                   /\ req[q].calls.set_summary = 1
                   /\ req[r].summary = req[q].summary
    /\ cache[Key(RaceUrl.id, "summary")].present =>
           /\ lastOk.known
           /\ cache[Key(RaceUrl.id, "summary")].value = Encode(lastOk.summary)
           /\ \E q \in Reqs :
                  /\ req[q].calls.set_summary = 1
                  /\ cache[Key(RaceUrl.id, "summary")].value = Encode(req[q].summary)
    /\ cache[Key(RaceUrl.id, "transcript")].present =>
           \E q \in Reqs :
               /\ req[q].calls.set_transcript = 1
               /\ cache[Key(RaceUrl.id, "transcript")].value = Encode(req[q].transcript)

\* how far the call in slot r is from its return: the statements left, and
\* within gather the chunk calls still out
Rank(slot) ==
    CASE slot.pc = "idle" -> 100
      [] slot.pc = "get_summary" -> 90
      [] slot.pc = "get_transcript" -> 80
      [] slot.pc = "acquire" -> 70
      [] slot.pc = "set_transcript" -> 60
      [] slot.pc = "summarize" -> 50
      [] slot.pc = "gather" ->
             30 + Cardinality({i \in DOMAIN slot.summaries : ~slot.summaries[i].done})
      [] slot.pc = "merge" -> 20
      [] slot.pc = "set_summary" -> 10
      [] OTHER -> 0

\* a slot without its history field
Core(slot) == [slot EXCEPT !.prior = [known |-> FALSE]]

\* every step is the step of one request: it brings that request closer to
\* its return and leaves the other request where it was
RaceProgress ==
    LET moved == { r \in Reqs : Core(req'[r]) # Core(req[r]) } IN
    /\ Cardinality(moved) = 1
    /\ \A r \in moved : Rank(req'[r]) < Rank(req[r])

RunOver(r) == req[r].pc \in {"set_summary", "raised"}

\* C19: two runs of the orchestrator on the same transcript with different
\* languages, given the same answer to the same request, compute the same
\* chunks, send the same chunk requests and then the same merge request, and
\* end alike: the same summary returned, or both raising
C19_LanguageIgnored ==
    (/\ req[1].language # req[2].language
     /\ req[1].transcript = req[2].transcript) =>
        /\ (req[1].pc \in {"gather", "merge"} /\ req[2].pc \in {"gather", "merge"}) =>
               /\ req[1].chunks = req[2].chunks
               /\ \A i \in DOMAIN req[1].chunks : req[1].requests[i] = req[2].requests[i]
        /\ (Synced /\ req[1].pc = req[2].pc) =>
               /\ req[1].summaries = req[2].summaries
               /\ req[1].requests = req[2].requests
        /\ (RunOver(1) /\ RunOver(2)) =>
               /\ req[1].chunks = req[2].chunks
               /\ req[1].requests = req[2].requests
               /\ req[1].pc = req[2].pc
               /\ req[1].summary = req[2].summary
               /\ req[1].last_call = req[2].last_call

\* C19 witness: the English run and the French run of a two-chunk
\* transcript both returned the summary of the merge, after three requests
\* each
C19_Witness ==
    /\ req[1].language = "english"
    /\ req[2].language = "french"
    /\ req[1].pc = "set_summary"
    /\ req[2].pc = "set_summary"
    /\ Len(req[1].chunks) = 2
    /\ Len(req[2].requests) = 3
    /\ req[1].summary # <<>>

\* ------------------------------------------- claims on fan-out and fan-in

\* the chunk calls of slot r that are not back yet
NotBack(r) == { i \in DOMAIN req[r].summaries : ~req[r].summaries[i].done }

\* the merge call is issued only after every chunk call has come back with
\* its summary
MergeAfterAll(r) ==
    req[r].calls.merge > 0 =>
        /\ ~req[r].chunk_failed
        /\ NotBack(r) = {}
        /\ Len(req[r].completed) = Len(req[r].chunks)
        /\ \A i \in DOMAIN req[r].chunks : \E k \in DOMAIN req[r].completed :
               req[r].completed[k] = i

\* C21 as stated: in a run over N chunks every chunk call that is not back
\* is in flight, with no cap (all N at once before any result), and the
\* merge call is issued only after all N have come back with a summary
C21_Original ==
    \A r \in Reqs :
        /\ req[r].pc = "gather" =>
               /\ Len(req[r].summaries) = Len(req[r].chunks)
               /\ req[r].in_flight = NotBack(r)
        /\ MergeAfterAll(r)

\* C21 amended: every chunk call is handed over before any result is
\* awaited and the merge call is issued only after all N have come back with
\* a summary; run by asyncio.gather all calls that are not back are in
\* flight, with no cap; run by the thread pool at most max_workers of them
\* are in flight and the others wait their turn
C21_FanOutFanIn ==
    \A r \in Reqs :
        /\ req[r].pc = "gather" =>
               /\ Len(req[r].summaries) = Len(req[r].chunks)
               /\ req[r].calls.chunk = Len(req[r].chunks)
               /\ req[r].in_flight \subseteq NotBack(r)
               /\ req[r].executor = "gather" => req[r].in_flight = NotBack(r)
               /\ req[r].executor = "pool" =>
                      /\ Cardinality(req[r].in_flight) <= PoolWorkers
                      /\ (Cardinality(req[r].in_flight) < PoolWorkers
                              => req[r].in_flight = NotBack(r))
        /\ MergeAfterAll(r)

\* C21 witness: a run by asyncio.gather over three chunks with all three
\* calls in flight and none back
C21_Witness ==
    \E r \in Reqs :
        /\ req[r].pc = "gather"
        /\ req[r].executor = "gather"
        /\ Len(req[r].chunks) = 3
        /\ req[r].in_flight = {1, 2, 3}
        /\ req[r].completed = <<>>

\* ------------------------------------------ claims on blank transcripts

\* the transcript has no non-empty paragraph: it is empty or made of
\* newlines and spaces only
Blank(t) == \A i \in DOMAIN t : t[i] \in Whitespace

\* the call in slot r has its transcript and is in or past the pipeline
InPipeline(r) == req[r].pc \in {"gather", "merge", "set_summary"} \/ PipelineReturned(r)

\* C22: for a transcript with no non-empty paragraph split_in_chunks returns
\* the empty list and the pipeline goes on: no chunk call, then exactly one
\* merge call on the empty list of summaries, whose summary is returned and
\* set as the summary entry of the video
C22_BlankTranscript ==
    [][\A r \in Reqs :
           (Blank(req'[r].transcript) /\ InPipeline(r)') =>
               /\ req'[r].chunks = <<>>
               /\ req'[r].summaries = <<>>
               /\ req'[r].calls.chunk = 0
               /\ req'[r].last_call.fn # "summarize_chunk"
               /\ req'[r].pc = "gather" => req'[r].requests = <<>>
               /\ req'[r].pc # "gather" =>
                      /\ req'[r].calls.merge = 1
                      /\ req'[r].merge_request = <<"<">> \o Sep \o Sep \o <<">">>
                      /\ req'[r].requests = <<req'[r].merge_request>>
               /\ (req[r].pc = "set_summary" /\ req'[r].pc = "returned") =>
                      /\ req'[r].summary = req[r].last_call.response.summary
                      /\ lastOk'.summary = req'[r].summary
                      /\ cache'[Key(req[r].video_id, "summary")] =
                             [present |-> TRUE, value |-> Encode(req'[r].summary)]]_vars

\* C22 witness: a call that acquired a transcript of newlines and a space
\* made one merge call and no chunk call, returned the summary of the merge
\* and left it in the cache
C22_Witness ==
    \E r \in Reqs :
        /\ req[r].transcript = <<NL, NL, SP>>
        /\ req[r].calls.acquire = 1
        /\ PipelineReturned(r)
        /\ req[r].requests = <<req[r].merge_request>>
        /\ req[r].summary = <<"T">>
        /\ cache[Key(req[r].video_id, "summary")].value = Encode(<<"T">>)

====
